---- MODULE Spec2Model ----
(***************************************************************************)
(* Recipe ETL: the Normalizer (firestore_etl_direct.transform_and_normalize)*)
(* and its pipeline (run_pipeline), the Validator (data_validator's        *)
(* validate_data and run_validator) and the Analytics (analytics_script's  *)
(* load_and_merge_data and generate_insights), one specification each.     *)
(*                                                                         *)
(* Python values are tagged records, so that a cell can hold None, NaN, a  *)
(* string, a number, a Timestamp object, a list or a dict, as a value of a *)
(* dynamically typed program can:                                          *)
(*   [t |-> "none"]  [t |-> "nan"]  [t |-> "str", v |-> "R1"]               *)
(*   [t |-> "int", v |-> 3]  [t |-> "ts", v |-> 1]  [t |-> "uuid", v |-> 1] *)
(*   [t |-> "list", v |-> <<...>>]  [t |-> "dict", v |-> [k |-> value]]     *)
(* A dict is a function from the keys it holds to values; a key the dict   *)
(* does not hold is not in its DOMAIN.                                     *)
(***************************************************************************)
EXTENDS Integers, Sequences, FiniteSets, TLC

VARIABLES
    pc,                 \* "start", "returned", "raised"; "idle" for a component not under check
    error,              \* the exception that left the function, "" when none
    recipes_data,       \* the caller's list of recipe documents
    interactions_data,  \* the caller's list of interaction documents (the same objects the function reads)
    passed,             \* the two arguments as they were when the call was made
    result,             \* what the function returned
    file_key,           \* validate_data: the record set kind
    df,                 \* validate_data: the record set, a sequence of rows
    disk,               \* the directory normalized_output, its CSV files and the report file
    idx,                \* run_validator, export_to_csv: the position of the loop over the record sets
    report_content,     \* run_validator: the sections appended to the report so far
    all_reports,        \* run_validator: file_key -> validation report
    db,                 \* run_pipeline: the Firestore collections, each a list of documents
    users_data,         \* run_pipeline: the users fetched
    calls,              \* run_pipeline: the functions called so far, in order
    frames,             \* analytics: what load_and_merge_data returned
    insights            \* analytics: what generate_insights returned

\* the variables of run_validator
validator_run == <<disk, idx, report_content, all_reports>>

\* the variables of run_pipeline
pipeline_run == <<db, users_data, calls>>

\* the variables of the analytics script
analysis == <<frames, insights>>

vars == <<pc, error, recipes_data, interactions_data, passed, result, file_key, df,
          validator_run, pipeline_run, analysis>>

----------------------------------------------------------------------------
(* Bounds *)

MaxRecipes == 2         \* recipe documents in one input
MaxEmbedded == 2        \* embedded entries of one recipe document, ingredients and steps together
MaxInteractions == 2    \* interaction documents in one input
MaxRows == 2            \* rows of a record set given to validate_data

----------------------------------------------------------------------------
(* Python values *)

None == [t |-> "none"]
NaN == [t |-> "nan"]
Str(s) == [t |-> "str", v |-> s]
Num(n) == [t |-> "int", v |-> n]
Timestamp(n) == [t |-> "ts", v |-> n]
Uuid(n) == [t |-> "uuid", v |-> n]
List(s) == [t |-> "list", v |-> s]
Dict(d) == [t |-> "dict", v |-> d]

\* bool(x), as `if x` / `not x` evaluate it
Truthy(x) ==
    CASE x.t = "none" -> FALSE
      [] x.t = "str" -> x.v # ""
      [] x.t = "int" -> x.v # 0
      [] x.t = "list" -> Len(x.v) > 0
      [] OTHER -> TRUE

\* dict.get(key, default)
Get(d, key, default) == IF key \in DOMAIN d THEN d[key] ELSE default

\* datetime.isoformat(): the text of the instant
IsoText == <<"2025-01-01T10:00:00", "2025-01-02T11:30:00">>

isoformat(x) == Str(IsoText[x.v])

\* a value that has the method isoformat
HasIsoformat(x) == x.t = "ts"

----------------------------------------------------------------------------
(* Normalizer: firestore_etl_direct.transform_and_normalize *)

\* the three accumulating lists of lines 51-53, the exception in flight and
\* the number of uuid4() values drawn so far
NoRows == [err |-> "", recipes |-> <<>>, ingredients |-> <<>>, steps |-> <<>>, uuid |-> 0]

\* lines 66-75: the Recipe record of one document
RecipeRecord(recipe_doc, recipe_id) ==
    [recipe_id |-> recipe_id,
     name |-> Get(recipe_doc, "name", None),
     serves |-> Get(recipe_doc, "serves", None),
     prep_time_minutes |-> Get(recipe_doc, "prep_time_minutes", None),
     cook_time_minutes |-> Get(recipe_doc, "cook_time_minutes", None),
     difficulty |-> Get(recipe_doc, "difficulty", None),
     created_at |-> IF Truthy(Get(recipe_doc, "created_at", None))
                    THEN isoformat(Get(recipe_doc, "created_at", None))
                    ELSE None]

\* lines 79-85: the Ingredient record of one embedded entry
IngredientRecord(ingredient, recipe_id, pk) ==
    [ingredient_pk_id |-> Uuid(pk),
     recipe_id |-> recipe_id,
     name |-> Get(ingredient.v, "name", None),
     quantity |-> Get(ingredient.v, "quantity", None),
     unit |-> Get(ingredient.v, "unit", None)]

\* lines 89-94: the Step record of one embedded entry
StepRecord(step, recipe_id, pk) ==
    [step_pk_id |-> Uuid(pk),
     recipe_id |-> recipe_id,
     step_number |-> Get(step.v, "step_number", None),
     description |-> Get(step.v, "description", None)]

\* lines 78-85: for ingredient in recipe_doc.get('ingredients', []), from entry i on.
\* An entry without .get (anything but a dict) raises AttributeError.
RECURSIVE IngredientLoop(_, _, _, _)
IngredientLoop(entries, i, recipe_id, acc) ==
    IF i > Len(entries) THEN acc
    ELSE IF entries[i].t # "dict" THEN [acc EXCEPT !.err = "AttributeError:ingredients"]
    ELSE IngredientLoop(entries, i + 1, recipe_id,
            [acc EXCEPT !.ingredients = Append(@, IngredientRecord(entries[i], recipe_id, acc.uuid + 1)),
                        !.uuid = @ + 1])

\* lines 88-94: for step in recipe_doc.get('steps', []), from entry i on
RECURSIVE StepLoop(_, _, _, _)
StepLoop(entries, i, recipe_id, acc) ==
    IF i > Len(entries) THEN acc
    ELSE IF entries[i].t # "dict" THEN [acc EXCEPT !.err = "AttributeError:steps"]
    ELSE StepLoop(entries, i + 1, recipe_id,
            [acc EXCEPT !.steps = Append(@, StepRecord(entries[i], recipe_id, acc.uuid + 1)),
                        !.uuid = @ + 1])

\* a variant of Ingredients that starts at the second entry
IngredientsFromSecond(recipe_doc, recipe_id, acc) ==
    LET value == Get(recipe_doc, "ingredients", List(<<>>))
    IN  IF value.t # "list" THEN [acc EXCEPT !.err = "TypeError:ingredients"]
        ELSE IngredientLoop(value.v, 2, recipe_id, acc)

\* line 78: iterating the value of 'ingredients'; None is not iterable (TypeError)
Ingredients(recipe_doc, recipe_id, acc) ==
    LET value == Get(recipe_doc, "ingredients", List(<<>>))
    IN  IF value.t # "list" THEN [acc EXCEPT !.err = "TypeError:ingredients"]
        ELSE IngredientLoop(value.v, 1, recipe_id, acc)

\* line 88: iterating the value of 'steps'
Steps(recipe_doc, recipe_id, acc) ==
    LET value == Get(recipe_doc, "steps", List(<<>>))
    IN  IF value.t # "list" THEN [acc EXCEPT !.err = "TypeError:steps"]
        ELSE StepLoop(value.v, 1, recipe_id, acc)

\* a variant of Skipped that tests `recipe_id is None`
SkippedWhenNone(recipe_doc) == Get(recipe_doc, "recipe_id", None).t = "none"

\* line 61: if not recipe_id: continue
Skipped(recipe_doc) == ~Truthy(Get(recipe_doc, "recipe_id", None))

\* lines 57-94: the body of the loop for one recipe document
RecipeBody(recipe_doc, acc) ==
    LET recipe_id == Get(recipe_doc, "recipe_id", None)
        created_at == Get(recipe_doc, "created_at", None)
    IN  IF Skipped(recipe_doc) THEN acc
        ELSE IF Truthy(created_at) /\ ~HasIsoformat(created_at)
                THEN [acc EXCEPT !.err = "AttributeError:created_at"]
        ELSE LET a == [acc EXCEPT !.recipes = Append(@, RecipeRecord(recipe_doc, recipe_id))]
                 b == Ingredients(recipe_doc, recipe_id, a)
             IN  IF b.err # "" THEN b ELSE Steps(recipe_doc, recipe_id, b)

\* lines 57-94: for recipe_doc in recipes_data, from document i on
RECURSIVE RecipeLoop(_, _, _)
RecipeLoop(docs, i, acc) ==
    IF i > Len(docs) \/ acc.err # "" THEN acc
    ELSE RecipeLoop(docs, i + 1, RecipeBody(docs[i], acc))

\* lines 102-103: one interaction document after the loop body
ConvertTimestamp(interaction) ==
    IF Truthy(Get(interaction, "timestamp", None))
    THEN [interaction EXCEPT !["timestamp"] = isoformat(@)]
    ELSE interaction

\* line 103: the call .isoformat() fails on a value that is no datetime
TimestampFails(interaction) ==
    LET ts == Get(interaction, "timestamp", None)
    IN  Truthy(ts) /\ ~HasIsoformat(ts)

\* lines 100-103: for interaction in interactions_data, from document i on;
\* the documents are the caller's objects and are assigned to in place.
\* Gives the list as the loop leaves it and the exception, if any.
RECURSIVE InteractionLoop(_, _)
InteractionLoop(docs, i) ==
    IF i > Len(docs) THEN [err |-> "", docs |-> docs]
    ELSE IF TimestampFails(docs[i]) THEN [err |-> "AttributeError:timestamp", docs |-> docs]
    ELSE InteractionLoop([docs EXCEPT ![i] = ConvertTimestamp(@)], i + 1)

\* the columns pd.DataFrame(list of dicts) gives: every key of every dict
RECURSIVE Columns(_, _)
Columns(rows, i) == IF i > Len(rows) THEN {} ELSE DOMAIN rows[i] \cup Columns(rows, i + 1)

\* lines 106-109: pd.DataFrame(rows): one row per dict, in order, a cell per
\* column, NaN where the dict has no such key
DataFrame(rows) ==
    [i \in 1..Len(rows) |-> [c \in Columns(rows, 1) |-> Get(rows[i], c, NaN)]]

\* a variant of interactions_df that leaves out the documents without a key
HasBothKeys(interaction) ==
    /\ Get(interaction, "interaction_id", None).t # "none"
    /\ Get(interaction, "recipe_id", None).t # "none"

interactions_df_dropping_keyless(docs) == DataFrame(SelectSeq(docs, HasBothKeys))

\* line 109: interactions_df = pd.DataFrame(interactions_data)
interactions_df(docs) == DataFrame(docs)

\* what the variable result holds while nothing has been returned
NoResult == [recipe_df |-> <<>>, ingredients_df |-> <<>>, steps_df |-> <<>>, interactions_df |-> <<>>]

\* lines 45-111: one call of transform_and_normalize(recipes_data, interactions_data).
\* The recipe loop runs first; an exception leaves the function at once and
\* nothing is returned. The interaction loop assigns to the caller's documents.
transform_and_normalize ==
    /\ pc = "start"
    /\ LET rows == RecipeLoop(recipes_data, 1, NoRows)
           conv == InteractionLoop(interactions_data, 1)
       IN  IF rows.err # ""
           THEN /\ pc' = "raised"
                /\ error' = rows.err
                /\ result' = NoResult
                /\ UNCHANGED interactions_data
           ELSE /\ interactions_data' = conv.docs
                /\ IF conv.err # ""
                   THEN /\ pc' = "raised"
                        /\ error' = conv.err
                        /\ result' = NoResult
                   ELSE /\ pc' = "returned"
                        /\ error' = ""
                        /\ result' = [recipe_df |-> DataFrame(rows.recipes),
                                      ingredients_df |-> DataFrame(rows.ingredients),
                                      steps_df |-> DataFrame(rows.steps),
                                      interactions_df |-> interactions_df(conv.docs)]
    /\ UNCHANGED <<recipes_data, passed, file_key, df, validator_run, pipeline_run, analysis>>

----------------------------------------------------------------------------
(* Validator: normalized_output/data_validator.validate_data *)

\* lines 17-18
VALID_DIFFICULTIES == {Str("Easy"), Str("Medium"), Str("Hard")}
VALID_INTERACTION_TYPES == {Str("VIEW"), Str("LIKE"), Str("COOK_ATTEMPT")}

\* lines 28, 60, 85, 110: required_fields of each record set
required_fields(key) ==
    CASE key = "recipe" ->
            <<"recipe_id", "name", "serves", "prep_time_minutes", "cook_time_minutes", "difficulty">>
      [] key = "ingredients" -> <<"ingredient_pk_id", "recipe_id", "name", "quantity">>
      [] key = "steps" -> <<"step_pk_id", "recipe_id", "step_number", "description">>
      [] key = "interactions" ->
            <<"interaction_id", "user_id", "recipe_id", "interaction_type", "timestamp">>

\* line 41
numeric_fields == <<"serves", "prep_time_minutes", "cook_time_minutes">>

\* pd.isna(x) of a scalar
isna(x) == x.t \in {"none", "nan"}

\* x < n and x > n raise TypeError unless x is a number (NaN is one, None and text are not)
Ordered(x) == x.t \in {"int", "nan"}

\* x < n for a number x: False for NaN
Lt(x, n) == x.t = "int" /\ x.v < n

\* x > n for a number x: False for NaN
Gt(x, n) == x.t = "int" /\ x.v > n

\* the state of the checks of one row: is_valid and reasons of lines 31-32,
\* and the exception in flight
RowStart == [err |-> "", is_valid |-> TRUE, reasons |-> <<>>]

\* reasons.append(reason); is_valid = False
Fail(st, reason) == [st EXCEPT !.reasons = Append(@, reason), !.is_valid = FALSE]

\* lines 35-38 (67-70, 92-95, 117-120): Rule 1 over required_fields from field i on
RECURSIVE RequiredRule(_, _, _, _)
RequiredRule(row, fields, i, st) ==
    IF i > Len(fields) THEN st
    ELSE RequiredRule(row, fields, i + 1,
            IF isna(row[fields[i]])
            THEN Fail(st, [rule |-> "missing", field |-> fields[i]])
            ELSE st)

\* lines 43-45 (73-75, 98-100): if row[field] is not None and row[field] < bound
PositiveCheck(row, field, bound, st) ==
    IF row[field].t = "none" THEN st
    ELSE IF ~Ordered(row[field]) THEN [st EXCEPT !.err = "TypeError"]
    ELSE IF Lt(row[field], bound)
         THEN Fail(st, [rule |-> "positive", field |-> field])
         ELSE st

\* lines 42-45: Rule 2 of a Recipe row over numeric_fields from field i on
RECURSIVE NumericRule(_, _, _)
NumericRule(row, i, st) ==
    IF i > Len(numeric_fields) \/ st.err # "" THEN st
    ELSE NumericRule(row, i + 1, PositiveCheck(row, numeric_fields[i], 0, st))

\* lines 48-50: Rule 3 of a Recipe row
DifficultyRule(row, st) ==
    IF row["difficulty"] \notin VALID_DIFFICULTIES
    THEN Fail(st, [rule |-> "difficulty", field |-> "difficulty"])
    ELSE st

\* lines 123-125: Rule 2 of an Interaction row
InteractionTypeRule(row, st) ==
    IF row["interaction_type"] \notin VALID_INTERACTION_TYPES
    THEN Fail(st, [rule |-> "interaction_type", field |-> "interaction_type"])
    ELSE st

\* a variant of RatingRule whose range is 1 <= rating < 5
RatingRuleUpperExclusive(row, st) ==
    LET type == row["interaction_type"]
        rating == row["rating"]
    IN  IF type = Str("COOK_ATTEMPT")
        THEN IF isna(rating) THEN Fail(st, [rule |-> "rating_range", field |-> "rating"])
             ELSE IF ~Ordered(rating) THEN [st EXCEPT !.err = "TypeError"]
             ELSE IF Lt(rating, 1) \/ Gt(rating, 4)
                  THEN Fail(st, [rule |-> "rating_range", field |-> "rating"])
                  ELSE st
        ELSE IF ~isna(rating)
             THEN Fail(st, [rule |-> "rating_not_allowed", field |-> "rating"])
             ELSE st

\* lines 128-134: Rule 3 of an Interaction row. `or` evaluates left to
\* right: pd.isna first, then the two comparisons, which need a number.
RatingRule(row, st) ==
    LET type == row["interaction_type"]
        rating == row["rating"]
    IN  IF type = Str("COOK_ATTEMPT")
        THEN IF isna(rating) THEN Fail(st, [rule |-> "rating_range", field |-> "rating"])
             ELSE IF ~Ordered(rating) THEN [st EXCEPT !.err = "TypeError"]
             ELSE IF Lt(rating, 1) \/ Gt(rating, 5)
                  THEN Fail(st, [rule |-> "rating_range", field |-> "rating"])
                  ELSE st
        ELSE IF ~isna(rating)
             THEN Fail(st, [rule |-> "rating_not_allowed", field |-> "rating"])
             ELSE st

\* a variant of CheckRow that stops at the first rule that fails
CheckRowFirstFailure(key, row) ==
    LET r1 == RequiredRule(row, required_fields(key), 1, RowStart)
    IN  IF ~r1.is_valid THEN [r1 EXCEPT !.reasons = <<r1.reasons[1]>>]
        ELSE CASE key = "recipe" ->
                    LET r2 == NumericRule(row, 1, r1)
                    IN  IF r2.err # "" \/ ~r2.is_valid THEN r2 ELSE DifficultyRule(row, r2)
               [] key = "ingredients" -> PositiveCheck(row, "quantity", 0, r1)
               [] key = "steps" -> PositiveCheck(row, "step_number", 1, r1)
               [] key = "interactions" ->
                    LET r2 == InteractionTypeRule(row, r1)
                    IN  IF ~r2.is_valid THEN r2 ELSE RatingRule(row, r2)

\* lines 31-50, 63-75, 88-100, 113-134: the rules of one row, in the order of the code
CheckRow(key, row) ==
    LET r1 == RequiredRule(row, required_fields(key), 1, RowStart)
    IN  CASE key = "recipe" ->
                LET r2 == NumericRule(row, 1, r1)
                IN  IF r2.err # "" THEN r2 ELSE DifficultyRule(row, r2)
          [] key = "ingredients" -> PositiveCheck(row, "quantity", 0, r1)
          [] key = "steps" -> PositiveCheck(row, "step_number", 1, r1)
          [] key = "interactions" -> RatingRule(row, InteractionTypeRule(row, r1))

\* lines 54, 79, 104, 138: the column the report entry takes its id from
id_field(key) ==
    CASE key = "recipe" -> "recipe_id"
      [] key = "ingredients" -> "ingredient_pk_id"
      [] key = "steps" -> "step_pk_id"
      [] key = "interactions" -> "interaction_id"

\* a variant of ReportRow that appends the entry at the front of the report
ReportRowPrepend(key, row, st, report) ==
    IF ~st.is_valid
    THEN <<[id |-> row[id_field(key)], status |-> "INVALID", reasons |-> st.reasons]>> \o report
    ELSE report

\* lines 52-57 (77-82, 102-107, 136-141): if not is_valid: validation_report.append(...)
ReportRow(key, row, st, report) ==
    IF ~st.is_valid
    THEN Append(report, [id |-> row[id_field(key)], status |-> "INVALID", reasons |-> st.reasons])
    ELSE report

\* lines 30, 62, 87, 112: for index, row in df.iterrows(), from row i on
RECURSIVE RowLoop(_, _, _, _)
RowLoop(key, rows, i, report) ==
    IF i > Len(rows) THEN [err |-> "", report |-> report]
    ELSE LET st == CheckRow(key, rows[i])
         IN  IF st.err # "" THEN [err |-> st.err, report |-> report]
             ELSE RowLoop(key, rows, i + 1, ReportRow(key, rows[i], st, report))

\* a variant of Counts that counts the rows left after the invalid ones twice over
CountsValidOff(rows, report) ==
    [total_records |-> Len(rows),
     valid_records |-> Len(rows) - 2 * Len(report),
     invalid_records |-> Len(report),
     validation_report |-> report]

\* lines 144-148
Counts(rows, report) ==
    [total_records |-> Len(rows),
     valid_records |-> Len(rows) - Len(report),
     invalid_records |-> Len(report),
     validation_report |-> report]

\* what the variable result holds while validate_data has returned nothing
NoCounts == [total_records |-> 0, valid_records |-> 0, invalid_records |-> 0, validation_report |-> <<>>]

\* lines 21-148: one call of validate_data(file_key, df)
validate_data ==
    /\ pc = "validate"
    /\ LET out == RowLoop(file_key, df, 1, <<>>)
       IN  IF out.err # ""
           THEN pc' = "raised" /\ error' = out.err /\ result' = NoCounts
           ELSE pc' = "returned" /\ error' = "" /\ result' = Counts(df, out.report)
    /\ UNCHANGED <<recipes_data, interactions_data, passed, file_key, df, validator_run, pipeline_run, analysis>>

----------------------------------------------------------------------------
(* Validator run: normalized_output/data_validator.run_validator *)

\* lines 10-15: the keys of INPUT_FILES, in the order the loop takes them
INPUT_FILES == <<"recipe", "ingredients", "steps", "interactions">>

\* the number a cell text stands for, for the texts pd.read_csv reads as numbers
NumberOf ==
    ("-5" :> -5) @@ ("-1" :> -1) @@ ("0" :> 0) @@ ("1" :> 1) @@ ("2" :> 2) @@ ("3" :> 3)
    @@ ("4" :> 4) @@ ("5" :> 5) @@ ("6" :> 6) @@ ("15" :> 15) @@ ("25" :> 25)

\* pd.read_csv infers a numeric column when every cell that is not empty is a number
NumericColumn(rows, c) ==
    \A i \in 1..Len(rows) : rows[i][c] = "" \/ rows[i][c] \in DOMAIN NumberOf

\* line 181: the cell pd.read_csv gives for a text of the file: NaN for an
\* empty cell, a number in a numeric column, the text itself otherwise
ParseCell(rows, c, text) ==
    IF text = "" THEN NaN
    ELSE IF NumericColumn(rows, c) THEN Num(NumberOf[text])
    ELSE Str(text)

\* line 181: df = pd.read_csv(file_path), for a file that holds a header and rows
read_csv(rows) ==
    [i \in 1..Len(rows) |-> [c \in DOMAIN rows[i] |-> ParseCell(rows, c, rows[i][c])]]

\* lines 183-184: if 'rating' in df.columns: df['rating'] = df['rating'].fillna(-1)
fill_rating(frame) ==
    [i \in 1..Len(frame) |->
        IF "rating" \in DOMAIN frame[i] /\ frame[i]["rating"].t = "nan"
        THEN [frame[i] EXCEPT !["rating"] = Num(-1)]
        ELSE frame[i]]

\* lines 181-187: the try block up to the call of validate_data, for the file
\* of one key: the exception raised ("" when none) and what validate_data returned
LoadAndValidate(key, file) ==
    IF file.t # "csv" THEN [err |-> "EmptyDataError", counts |-> NoCounts]
    ELSE LET frame == fill_rating(read_csv(file.rows))
             out == RowLoop(key, frame, 1, <<>>)
         IN  IF out.err # "" THEN [err |-> out.err, counts |-> NoCounts]
             ELSE [err |-> "", counts |-> Counts(frame, out.report)]

\* lines 155-170: the directory check and the head of the report
CheckInputDir ==
    /\ pc = "run_validator"
    /\ IF disk.dir
       THEN pc' = "loop" /\ idx' = 1
       ELSE pc' = "returned" /\ idx' = 0
    /\ UNCHANGED <<error, recipes_data, interactions_data, passed, result, file_key, df,
                   disk, report_content, all_reports, pipeline_run, analysis>>

\* lines 174-177: the file of the key is not there: a "Skipping" line, continue
SkipMissingFile ==
    /\ pc = "loop"
    /\ idx <= Len(INPUT_FILES)
    /\ disk.files[INPUT_FILES[idx]].t = "absent"
    /\ report_content' = Append(report_content, [key |-> INPUT_FILES[idx], kind |-> "skipped"])
    /\ idx' = idx + 1
    /\ UNCHANGED <<pc, error, recipes_data, interactions_data, passed, result, file_key, df,
                   disk, all_reports, pipeline_run, analysis>>

\* lines 179-204: the try block runs to its end: the report of the key is
\* kept and its summary appended
ValidateFile ==
    /\ pc = "loop"
    /\ idx <= Len(INPUT_FILES)
    /\ disk.files[INPUT_FILES[idx]].t # "absent"
    /\ LET key == INPUT_FILES[idx]
           out == LoadAndValidate(key, disk.files[key])
       IN  /\ out.err = ""
           /\ all_reports' = (key :> out.counts.validation_report) @@ all_reports
           /\ report_content' = Append(report_content,
                  [key |-> key, kind |-> "summary",
                   total |-> out.counts.total_records,
                   valid |-> out.counts.valid_records,
                   invalid |-> out.counts.invalid_records,
                   lines |-> out.counts.validation_report])
    /\ idx' = idx + 1
    /\ UNCHANGED <<pc, error, recipes_data, interactions_data, passed, result, file_key, df, disk,
                   pipeline_run, analysis>>

\* a variant of FileError in which the exception leaves the loop
FileErrorLeavesLoop ==
    /\ pc = "loop"
    /\ idx <= Len(INPUT_FILES)
    /\ disk.files[INPUT_FILES[idx]].t # "absent"
    /\ LET key == INPUT_FILES[idx]
           out == LoadAndValidate(key, disk.files[key])
       IN  /\ out.err # ""
           /\ report_content' = Append(report_content,
                  [key |-> key, kind |-> "error", message |-> out.err])
    /\ idx' = Len(INPUT_FILES) + 1
    /\ UNCHANGED <<pc, error, recipes_data, interactions_data, passed, result, file_key, df,
                   disk, all_reports, pipeline_run, analysis>>

\* lines 206-207: except Exception as e: an "ERROR processing" line for the
\* key, and the loop goes on with the next key
FileError ==
    /\ pc = "loop"
    /\ idx <= Len(INPUT_FILES)
    /\ disk.files[INPUT_FILES[idx]].t # "absent"
    /\ LET key == INPUT_FILES[idx]
           out == LoadAndValidate(key, disk.files[key])
       IN  /\ out.err # ""
           /\ report_content' = Append(report_content,
                  [key |-> key, kind |-> "error", message |-> out.err])
    /\ idx' = idx + 1
    /\ UNCHANGED <<pc, error, recipes_data, interactions_data, passed, result, file_key, df,
                   disk, all_reports, pipeline_run, analysis>>

\* lines 210-211: after the loop the report file is written
WriteReport ==
    /\ pc = "loop"
    /\ idx = Len(INPUT_FILES) + 1
    /\ disk' = [disk EXCEPT !.report = [t |-> "written", content |-> report_content]]
    /\ pc' = "returned"
    /\ UNCHANGED <<error, recipes_data, interactions_data, passed, result, file_key, df,
                   idx, report_content, all_reports, pipeline_run, analysis>>

\* no report file, no file of any key
NoFile == [t |-> "absent"]

\* the variables of run_validator while another component is under check
IdleValidatorRun ==
    /\ disk = [dir |-> FALSE, files |-> [k \in {} |-> NoFile], report |-> NoFile]
    /\ idx = 0
    /\ report_content = <<>>
    /\ all_reports = <<>>

----------------------------------------------------------------------------
(* Pipeline: firestore_etl_direct.run_pipeline *)

\* the variables of run_pipeline while another component is under check
IdlePipeline ==
    /\ db = <<>>
    /\ users_data = <<>>
    /\ calls = <<>>

\* what load_and_merge_data returns after an exception: recipes_df is None
NoFrames == [loaded |-> FALSE]

\* the variables of the analytics script while another component is under check
IdleAnalysis ==
    /\ frames = NoFrames
    /\ insights = <<>>

\* lines 32-42: fetch_collection_data(collection_name): the dict of every
\* document of the collection, with the document id added as 'doc_id'
fetch_collection_data(collection_name) ==
    [i \in 1..Len(db[collection_name]) |->
        ("doc_id" :> Str(db[collection_name][i].id)) @@ db[collection_name][i].data]

\* lines 140-143: the three collections are fetched, in this order
FetchRecipes ==
    /\ pc = "fetch_recipes"
    /\ recipes_data' = fetch_collection_data("recipes")
    /\ calls' = Append(calls, "fetch:recipes")
    /\ pc' = "fetch_users"
    /\ UNCHANGED <<error, interactions_data, passed, result, file_key, df, validator_run, db, users_data, analysis>>

FetchUsers ==
    /\ pc = "fetch_users"
    /\ users_data' = fetch_collection_data("users")
    /\ calls' = Append(calls, "fetch:users")
    /\ pc' = "fetch_interactions"
    /\ UNCHANGED <<error, recipes_data, interactions_data, passed, result, file_key, df, validator_run, db, analysis>>

FetchInteractions ==
    /\ pc = "fetch_interactions"
    /\ interactions_data' = fetch_collection_data("interactions")
    /\ calls' = Append(calls, "fetch:interactions")
    /\ pc' = "check_core"
    /\ UNCHANGED <<error, recipes_data, passed, result, file_key, df, validator_run, db, users_data, analysis>>

\* a variant of CheckCoreData that stops only when both collections are empty
CheckCoreDataBothEmpty ==
    /\ pc = "check_core"
    /\ pc' = IF Len(recipes_data) = 0 /\ Len(interactions_data) = 0 THEN "returned" ELSE "transform"
    /\ UNCHANGED <<error, recipes_data, interactions_data, passed, result, file_key, df,
                   validator_run, pipeline_run, analysis>>

\* lines 145-147: if not recipes_data or not interactions_data: return
CheckCoreData ==
    /\ pc = "check_core"
    /\ pc' = IF Len(recipes_data) = 0 \/ Len(interactions_data) = 0 THEN "returned" ELSE "transform"
    /\ UNCHANGED <<error, recipes_data, interactions_data, passed, result, file_key, df,
                   validator_run, pipeline_run, analysis>>

\* lines 150-153: the call of transform_and_normalize; an exception of the
\* call leaves run_pipeline
Transform ==
    /\ pc = "transform"
    /\ calls' = Append(calls, "transform_and_normalize")
    /\ LET rows == RecipeLoop(recipes_data, 1, NoRows)
           conv == InteractionLoop(interactions_data, 1)
       IN  IF rows.err # ""
           THEN /\ pc' = "raised"
                /\ error' = rows.err
                /\ UNCHANGED <<interactions_data, result>>
           ELSE /\ interactions_data' = conv.docs
                /\ IF conv.err # ""
                   THEN pc' = "raised" /\ error' = conv.err /\ UNCHANGED result
                   ELSE /\ pc' = "export"
                        /\ error' = ""
                        /\ result' = [recipe_df |-> DataFrame(rows.recipes),
                                      ingredients_df |-> DataFrame(rows.ingredients),
                                      steps_df |-> DataFrame(rows.steps),
                                      interactions_df |-> interactions_df(conv.docs)]
    /\ UNCHANGED <<recipes_data, passed, file_key, df, validator_run, db, users_data, analysis>>

\* lines 118-123, 156-161: the record sets in the order export_to_csv takes them
ExportOrder == <<"recipe", "ingredients", "steps", "interactions">>

FrameOf(key) ==
    CASE key = "recipe" -> result.recipe_df
      [] key = "ingredients" -> result.ingredients_df
      [] key = "steps" -> result.steps_df
      [] key = "interactions" -> result.interactions_df

\* a CSV file: a header and the rows, every cell a text
Csv(rows) == [t |-> "csv", rows |-> rows]

\* str(uuid.uuid4()): one text per value drawn
UuidText == <<"uuid-1", "uuid-2", "uuid-3", "uuid-4", "uuid-5", "uuid-6", "uuid-7", "uuid-8">>

\* the text to_csv writes for a cell: nothing for a null
CellText(x) ==
    CASE x.t \in {"none", "nan"} -> ""
      [] x.t = "int" -> CHOOSE text \in DOMAIN NumberOf : NumberOf[text] = x.v
      [] x.t = "uuid" -> UuidText[x.v]
      [] OTHER -> x.v

\* line 130: astype({'recipe_id': 'str'}): str() of a null is its name
AsStr(x) ==
    CASE x.t = "none" -> Str("None")
      [] x.t = "nan" -> Str("nan")
      [] OTHER -> x

\* lines 130-132: the file written for one record set
to_csv(frame) ==
    Csv([i \in 1..Len(frame) |->
            [c \in DOMAIN frame[i] |-> CellText(IF c = "recipe_id" THEN AsStr(frame[i][c]) ELSE frame[i][c])]])

\* a record set has the column: a record set without rows has no columns
HasColumn(frame, c) == Len(frame) > 0 /\ c \in DOMAIN frame[1]

\* lines 114-116, 163: export_to_csv is called and makes the directory
BeginExport ==
    /\ pc = "export"
    /\ calls' = Append(calls, "export_to_csv")
    /\ disk' = [disk EXCEPT !.dir = TRUE]
    /\ idx' = 1
    /\ pc' = "export_loop"
    /\ UNCHANGED <<error, recipes_data, interactions_data, passed, result, file_key, df,
                   report_content, all_reports, db, users_data, analysis>>

\* lines 125-133: one record set is written; astype raises KeyError for a
\* record set without the column recipe_id
ExportFile ==
    /\ pc = "export_loop"
    /\ idx <= Len(ExportOrder)
    /\ LET key == ExportOrder[idx]
       IN  IF HasColumn(FrameOf(key), "recipe_id")
           THEN /\ disk' = [disk EXCEPT !.files[key] = to_csv(FrameOf(key))]
                /\ idx' = idx + 1
                /\ UNCHANGED <<pc, error>>
           ELSE /\ pc' = "raised"
                /\ error' = "KeyError:recipe_id"
                /\ UNCHANGED <<disk, idx>>
    /\ UNCHANGED <<recipes_data, interactions_data, passed, result, file_key, df,
                   report_content, all_reports, pipeline_run, analysis>>

\* line 165: the pipeline ends
EndPipeline ==
    /\ pc = "export_loop"
    /\ idx = Len(ExportOrder) + 1
    /\ pc' = "returned"
    /\ UNCHANGED <<error, recipes_data, interactions_data, passed, result, file_key, df,
                   validator_run, pipeline_run, analysis>>

----------------------------------------------------------------------------
(* Analytics: analytics_script.load_and_merge_data and generate_insights *)

\* line 27-28: pd.to_numeric(column, errors='coerce'): a cell that is no number
\* becomes NaN
to_numeric(x) ==
    CASE x.t = "int" -> x
      [] x.t = "str" /\ x.v \in DOMAIN NumberOf -> Num(NumberOf[x.v])
      [] OTHER -> NaN

\* line 31: astype(str).str.strip(): the text of a null is 'nan'
name_clean(x) ==
    LET strip == (" Rice" :> "Rice") @@ ("Rice " :> "Rice") @@ (" Salt " :> "Salt")
    IN  CASE x.t = "nan" -> Str("nan")
          [] x.t = "str" -> Str(IF x.v \in DOMAIN strip THEN strip[x.v] ELSE x.v)
          [] OTHER -> Str(CellText(x))

\* a row of the left set with NaN in the columns of the right set
Unmatched(left_row, right_columns) == left_row @@ [c \in right_columns |-> NaN]

\* lines 34-47: pd.merge(left, right, on='recipe_id', how='left'): every row of
\* left in order, once per row of right with its recipe_id, once with NaN
\* when there is none
RECURSIVE merge_left(_, _, _, _)
merge_left(left, right, right_columns, i) ==
    IF i > Len(left) THEN <<>>
    ELSE LET matches == SelectSeq(right, LAMBDA r : r["recipe_id"] = left[i]["recipe_id"])
             joined == IF Len(matches) = 0
                       THEN <<Unmatched(left[i], right_columns)>>
                       ELSE [k \in 1..Len(matches) |-> left[i] @@ matches[k]]
         IN  joined \o merge_left(left, right, right_columns, i + 1)

\* lines 22-24: the three files are read; a file that is not there raises
\* FileNotFoundError, a file of zero bytes EmptyDataError
Readable(file) == file.t = "csv"

\* lines 18-56: load_and_merge_data
Loaded(files) ==
    LET recipes == [i \in 1..Len(files["recipe"].rows) |->
                       [read_csv(files["recipe"].rows)[i] EXCEPT !["prep_time_minutes"] = to_numeric(@)]]
        ingredients == [i \in 1..Len(files["ingredients"].rows) |->
                           LET row == read_csv(files["ingredients"].rows)[i]
                           IN  row @@ ("name_clean" :> name_clean(row["name"]))]
        interactions == [i \in 1..Len(files["interactions"].rows) |->
                            [read_csv(files["interactions"].rows)[i] EXCEPT !["rating"] = to_numeric(@)]]
        keys == [i \in 1..Len(recipes) |->
                    [recipe_id |-> recipes[i]["recipe_id"], difficulty |-> recipes[i]["difficulty"]]]
    IN  [loaded |-> TRUE,
         recipes_df |-> recipes,
         ingredients_df |-> ingredients,
         interactions_df |-> interactions,
         recipe_interaction_df |-> merge_left(recipes, interactions,
                                             {"interaction_id", "user_id", "interaction_type", "rating", "timestamp"}, 1),
         ingredient_recipe_df |-> merge_left(ingredients, keys, {"difficulty"}, 1)]

\* lines 18-56, 262-264: load_and_merge_data and the test of its result in the
\* main block: the insights are computed only when the frames were loaded
load_and_merge_data ==
    /\ pc = "load"
    /\ IF \A key \in {"recipe", "ingredients", "interactions"} : Readable(disk.files[key])
       THEN frames' = Loaded(disk.files) /\ pc' = "insights"
       ELSE frames' = NoFrames /\ pc' = "returned"
    /\ UNCHANGED <<error, recipes_data, interactions_data, passed, result, file_key, df,
                   validator_run, pipeline_run, insights>>

\* the positions of the rows of a frame
Rows(frame) == 1..Len(frame)

\* frame[frame['interaction_type'] == type]
TypeIs(frame, type) == {i \in Rows(frame) : frame[i]["interaction_type"] = Str(type)}

\* the groups of groupby(c) over the rows taken: a null is no group
Keys(frame, rows, c) == {frame[i][c] : i \in rows} \ {NaN}

\* groupby(c).size()
Size(frame, rows, c) ==
    [k \in Keys(frame, rows, c) |-> Cardinality({i \in rows : frame[i][c] = k})]

\* column.value_counts(): nulls are not counted
value_counts(frame, c) == Size(frame, Rows(frame), c)

\* the results head(n) can give for counts sorted in descending order: the
\* sort is not stable, so any n of the largest
Heads(counts, n) ==
    IF Cardinality(DOMAIN counts) <= n THEN {counts}
    ELSE {[k \in kept |-> counts[k]] :
            kept \in {K \in SUBSET DOMAIN counts :
                        /\ Cardinality(K) = n
                        /\ \A a \in K, b \in DOMAIN counts \ K : counts[a] >= counts[b]}}

RECURSIVE SumOver(_, _)
SumOver(f, S) ==
    IF S = {} THEN 0
    ELSE LET i == CHOOSE j \in S : TRUE IN f[i] + SumOver(f, S \ {i})

\* a float, kept in hundredths
Hundredths(n) == [t |-> "float", hundredths |-> n]

\* round(num / den, 0) for a quotient that is not negative
Round(num, den) == (2 * num + den) \div (2 * den)

\* mean().round(2) of a numeric column over the rows taken: nulls are left
\* out, and the mean of nothing is NaN
MeanOf(frame, rows, c) ==
    LET present == {i \in rows : frame[i][c].t = "int"}
    IN  IF present = {} THEN NaN
        ELSE Hundredths(Round(100 * SumOver([i \in present |-> frame[i][c].v], present),
                              Cardinality(present)))

\* line 129: insight 1
common_ingredients(f) == Heads(value_counts(f.ingredients_df, "name_clean"), 5)

\* line 137: insight 2
avg_prep_time(f) == MeanOf(f.recipes_df, Rows(f.recipes_df), "prep_time_minutes")

\* line 145: insight 3: value_counts(normalize=True).mul(100).round(2)
difficulty_dist(f) ==
    LET counts == value_counts(f.recipes_df, "difficulty")
        total == SumOver(counts, DOMAIN counts)
    IN  [k \in DOMAIN counts |-> Hundredths(Round(10000 * counts[k], total))]

\* lines 153-154
likes_per_recipe(f) == Size(f.interactions_df, TypeIs(f.interactions_df, "LIKE"), "recipe_id")

\* lines 156-158: insight 4: the correlation of prep time and likes over the
\* recipes, nulls filled with 0; NaN when a series has no variance. The
\* coefficient cov / sqrt(varx * vary) is kept as its three terms.
correlation(f) ==
    LET n == Len(f.recipes_df)
        all == Rows(f.recipes_df)
        likes == likes_per_recipe(f)
        x == [i \in all |-> IF f.recipes_df[i]["prep_time_minutes"].t = "int"
                            THEN f.recipes_df[i]["prep_time_minutes"].v ELSE 0]
        y == [i \in all |-> IF f.recipes_df[i]["recipe_id"] \in DOMAIN likes
                            THEN likes[f.recipes_df[i]["recipe_id"]] ELSE 0]
        cov == n * SumOver([i \in all |-> x[i] * y[i]], all) - SumOver(x, all) * SumOver(y, all)
        varx == n * SumOver([i \in all |-> x[i] * x[i]], all) - SumOver(x, all) * SumOver(x, all)
        vary == n * SumOver([i \in all |-> y[i] * y[i]], all) - SumOver(y, all) * SumOver(y, all)
    IN  IF varx = 0 \/ vary = 0 THEN NaN
        ELSE [t |-> "corr", cov |-> cov, varx |-> varx, vary |-> vary]

\* an item of a dict built from a frame
Item(key, value) == [key |-> key, value |-> value]

\* pd.merge(counts, recipes_df[['recipe_id', 'name']], on='recipe_id'): one
\* row, the name with the count, per Recipe row whose recipe_id has a count
Named(recipes, counts) ==
    LET counted == SelectSeq(recipes, LAMBDA r : r["recipe_id"] \in DOMAIN counts)
    IN  [i \in 1..Len(counted) |-> Item(counted[i]["name"], counts[counted[i]["recipe_id"]])]

Orders(n) == {p \in [1..n -> 1..n] : \A a, b \in 1..n : a # b => p[a] # p[b]}

\* sort_values(by=count, ascending=False).head(n): the default sort is
\* quicksort, which keeps no order among equal counts, so every descending
\* order of the rows is a result the call can give
Ranked(rows, n) ==
    {[k \in 1..(IF n < Len(rows) THEN n ELSE Len(rows)) |-> rows[p[k]]] :
        p \in {q \in Orders(Len(rows)) :
                 \A a, b \in 1..Len(rows) : a < b => rows[q[a]].value >= rows[q[b]].value}}

\* set_index('name')[column].to_dict(): a name met again keeps its place and
\* takes the later value
to_dict(items) ==
    LET first == SelectSeq([i \in 1..Len(items) |-> i],
                           LAMBDA i : \A j \in 1..(i - 1) : items[j].key # items[i].key)
        last(key) == CHOOSE i \in 1..Len(items) :
                        /\ items[i].key = key
                        /\ \A j \in (i + 1)..Len(items) : items[j].key # key
    IN  [k \in 1..Len(first) |-> Item(items[first[k]].key, items[last(items[first[k]].key)].value)]

\* lines 166-167
views_per_recipe(f) == Size(f.interactions_df, TypeIs(f.interactions_df, "VIEW"), "recipe_id")

\* lines 169-175: insight 5
views_ranked(f) == {to_dict(r) : r \in Ranked(Named(f.recipes_df, views_per_recipe(f)), 5)}

\* lines 179-182: the recipes whose mean COOK_ATTEMPT rating is at least 4.0
high_rated_recipes(f) ==
    LET attempts == TypeIs(f.interactions_df, "COOK_ATTEMPT")
        avg(k) == MeanOf(f.interactions_df, {i \in attempts : f.interactions_df[i]["recipe_id"] = k}, "rating")
    IN  {k \in Keys(f.interactions_df, attempts, "recipe_id") :
            avg(k).t = "float" /\ avg(k).hundredths >= 400}

\* lines 184-186: insight 6
high_engagement_ingredients(f) ==
    LET rows == {i \in Rows(f.ingredient_recipe_df) :
                    f.ingredient_recipe_df[i]["recipe_id"] \in high_rated_recipes(f)}
    IN  Heads(Size(f.ingredient_recipe_df, rows, "name_clean"), 5)

\* lines 195-196: insight 7
difficulty_ratings(f) ==
    LET attempts == TypeIs(f.recipe_interaction_df, "COOK_ATTEMPT")
    IN  [k \in Keys(f.recipe_interaction_df, attempts, "difficulty") |->
            MeanOf(f.recipe_interaction_df,
                   {i \in attempts : f.recipe_interaction_df[i]["difficulty"] = k}, "rating")]

\* lines 204-205: insight 8: the mean size of the groups of the Step set
steps_count(steps_df) ==
    LET sizes == value_counts(steps_df, "recipe_id")
    IN  IF DOMAIN sizes = {} THEN NaN
        ELSE Hundredths(Round(100 * SumOver(sizes, DOMAIN sizes), Cardinality(DOMAIN sizes)))

\* line 213: insight 9
top_users(f) == Heads(value_counts(f.interactions_df, "user_id"), 5)

\* line 221
total_recipes(f) == Len(f.recipes_df)

\* line 222: nunique() of the recipe_id of the COOK_ATTEMPT rows
attempted_recipes(f) ==
    Cardinality(Keys(f.interactions_df, TypeIs(f.interactions_df, "COOK_ATTEMPT"), "recipe_id"))

\* lines 224-229: insight 10, for a total that is not 0
attempt_percentage(f) ==
    [percentage |-> Hundredths(Round(10000 * attempted_recipes(f), total_recipes(f))),
     attempted |-> attempted_recipes(f),
     total |-> total_recipes(f)]

\* a variant of unique_likes that counts every LIKE event
unique_likes_per_event(f) ==
    Size(f.interactions_df, TypeIs(f.interactions_df, "LIKE"), "recipe_id")

\* lines 233-235: drop_duplicates(subset=['recipe_id', 'user_id']) keeps the
\* first row of each pair
unique_likes(f) ==
    LET likes == TypeIs(f.interactions_df, "LIKE")
        kept == {i \in likes : \A j \in likes :
                    j < i => \/ f.interactions_df[j]["recipe_id"] # f.interactions_df[i]["recipe_id"]
                             \/ f.interactions_df[j]["user_id"] # f.interactions_df[i]["user_id"]}
    IN  Size(f.interactions_df, kept, "recipe_id")

\* lines 237-243: insight 11
most_unique_liked(f) == {to_dict(r) : r \in Ranked(Named(f.recipes_df, unique_likes(f)), 1)}

Insight(id, name, value) == [ID |-> id, Name |-> name, Result |-> value]

\* lines 124-246: generate_insights, called by the main block with the frames
\* loaded; pd.read_csv of line 204 and the division of line 224 can raise
generate_insights ==
    /\ pc = "insights"
    /\ LET f == frames
           steps == disk.files["steps"]
       IN  IF ~Readable(steps)
           THEN /\ pc' = "raised"
                /\ error' = IF steps = NoFile THEN "FileNotFoundError" ELSE "EmptyDataError"
                /\ UNCHANGED insights
           ELSE IF total_recipes(f) = 0
           THEN /\ pc' = "raised"
                /\ error' = "ZeroDivisionError"
                /\ UNCHANGED insights
           ELSE /\ pc' = "returned"
                /\ error' = ""
                /\ \E i1 \in common_ingredients(f), i5 \in views_ranked(f),
                      i6 \in high_engagement_ingredients(f), i9 \in top_users(f),
                      i11 \in most_unique_liked(f) :
                      insights' =
                        <<Insight(1, "Most Common Ingredients", i1),
                          Insight(2, "Average Preparation Time (Minutes)", avg_prep_time(f)),
                          Insight(3, "Recipe Difficulty Distribution (%)", difficulty_dist(f)),
                          Insight(4, "Correlation (Prep Time vs. Likes)", correlation(f)),
                          Insight(5, "Top 5 Most Viewed Recipes", i5),
                          Insight(6, "Top 5 Ingredients in High-Rated Recipes (Avg Rating >= 4.0)", i6),
                          Insight(7, "Average Rating by Difficulty", difficulty_ratings(f)),
                          Insight(8, "Average Number of Steps per Recipe", steps_count(read_csv(steps.rows))),
                          Insight(9, "Top 5 Most Active Users (Total Interactions)", i9),
                          Insight(10, "Percentage of Recipes with at least one 'COOK_ATTEMPT'", attempt_percentage(f)),
                          Insight(11, "Most Liked Recipe by Unique User Count", i11)>>
    /\ UNCHANGED <<recipes_data, interactions_data, passed, result, file_key, df,
                   validator_run, pipeline_run, frames>>

----------------------------------------------------------------------------
(* The inputs a call is made with *)

SeqsUpTo(S, n) == UNION {[1..k -> S] : k \in 0..n}

\* a dict with the key only when the value is given (Absent: no such key)
Absent == [t |-> "absent"]

Field(key, value) == IF value.t = "absent" THEN <<>> ELSE key :> value

\* the first n embedded ingredient / step entries of a recipe, as firestore_setup.py writes them
IngredientNames == <<"Rice", "Water", "Salt">>

GoodIngredients(n) ==
    [k \in 1..n |-> Dict([name |-> Str(IngredientNames[((k - 1) % 3) + 1]), quantity |-> Num(k)])]

GoodSteps(n) ==
    [k \in 1..n |-> Dict([step_number |-> Num(k), description |-> Str("Heat pan")])]

\* an embedded list whose last entry is no key-value document
Malformed(entries) == [entries EXCEPT ![Len(entries)] = Str("oops")]

\* a recipe document
RecipeDoc(recipe_id, created_at, ingredients, steps) ==
    [name |-> Str("Masala Rice"), serves |-> Num(2), prep_time_minutes |-> Num(15),
     cook_time_minutes |-> Num(25), difficulty |-> Str("Medium")]
    @@ Field("recipe_id", recipe_id) @@ Field("created_at", created_at)
    @@ Field("ingredients", ingredients) @@ Field("steps", steps)

\* well-formed embedded lists: n ingredients and m steps, every n + m up to the bound
WellFormedPairs ==
    {<<List(GoodIngredients(nm[1])), List(GoodSteps(nm[2]))>> :
        nm \in {x \in (0..MaxEmbedded) \X (0..MaxEmbedded) : x[1] + x[2] <= MaxEmbedded}}

\* one of the two embedded values absent, null or malformed
OddPairs ==
    {<<Absent, List(GoodSteps(1))>>, <<None, List(GoodSteps(1))>>,
     <<List(Malformed(GoodIngredients(MaxEmbedded))), List(GoodSteps(1))>>,
     <<List(GoodIngredients(1)), Absent>>, <<List(GoodIngredients(1)), None>>,
     <<List(GoodIngredients(1)), List(Malformed(GoodSteps(MaxEmbedded)))>>}

RecipeDocs ==
    {RecipeDoc(Str(id), Timestamp(1), p[1], p[2]) : id \in {"R1", "R2"}, p \in WellFormedPairs \cup OddPairs}
    \cup {RecipeDoc(id, Timestamp(1), List(GoodIngredients(1)), List(GoodSteps(1))) : id \in {Absent, Str("")}}

\* recipe documents that differ in created_at only
DatedRecipeDocs ==
    {RecipeDoc(Str("R1"), c, List(GoodIngredients(1)), List(GoodSteps(1))) :
        c \in {Absent, None, Timestamp(2), Str("2025-01-01")}}

\* an interaction document
InteractionDoc(interaction_id, recipe_id, timestamp) ==
    [user_id |-> Str("U1"), interaction_type |-> Str("VIEW"), rating |-> None]
    @@ Field("interaction_id", interaction_id) @@ Field("recipe_id", recipe_id)
    @@ Field("timestamp", timestamp)

InteractionDocs ==
    {InteractionDoc(i, r, ts) :
        i \in {None, Str("I1"), Str("I2")},
        r \in {Absent, Str("R1")},
        ts \in {None, Timestamp(1), Timestamp(2), Str("2025-01-01T10:00:00")}}

\* rows of a record set: the valid row of each kind with some of its cells replaced
RecipeRows ==
    {[recipe_id |-> Str("R"), name |-> Str("Masala Rice"), serves |-> s, prep_time_minutes |-> p,
      cook_time_minutes |-> Num(0), difficulty |-> d, created_at |-> Str(IsoText[1])] :
        s \in {Num(2), Num(-1), Str("four")}, p \in {Num(15), Num(-5)},
        d \in {Str("Easy"), Str("Intense"), NaN}}
    \cup {[recipe_id |-> i, name |-> n, serves |-> s, prep_time_minutes |-> Num(15),
           cook_time_minutes |-> c, difficulty |-> Str("Hard"), created_at |-> NaN] :
        i \in {Str("R"), NaN}, n \in {Str("Upma"), NaN}, s \in {Num(0), NaN}, c \in {Num(25)}}

IngredientRows ==
    {[ingredient_pk_id |-> i, recipe_id |-> Str("R1"), name |-> n, quantity |-> q, unit |-> Str("cup")] :
        i \in {Str("R"), NaN}, n \in {Str("Salt"), NaN},
        q \in {Num(2), Num(0), Num(-1), NaN, Str("a pinch")}}
    \cup {[ingredient_pk_id |-> Str("R"), recipe_id |-> NaN, name |-> Str("Salt"),
           quantity |-> None, unit |-> NaN]}

StepRows ==
    {[step_pk_id |-> i, recipe_id |-> Str("R1"), step_number |-> k, description |-> d] :
        i \in {Str("R"), NaN}, d \in {Str("Heat pan"), NaN},
        k \in {Num(1), Num(0), NaN, Str("two")}}
    \cup {[step_pk_id |-> Str("R"), recipe_id |-> NaN, step_number |-> Num(-1), description |-> Str("Serve")]}

InteractionRows ==
    {[interaction_id |-> Str("R"), user_id |-> Str("U1"), recipe_id |-> Str("R1"),
      interaction_type |-> t, rating |-> r, timestamp |-> Str(IsoText[1])] :
        t \in {Str("COOK_ATTEMPT"), Str("VIEW"), Str("SHARE"), NaN},
        r \in {NaN, Num(0), Num(1), Num(4), Num(5), Num(6), Str("five")}}
    \cup {[interaction_id |-> i, user_id |-> u, recipe_id |-> r,
           interaction_type |-> Str("LIKE"), rating |-> NaN, timestamp |-> ts] :
        i \in {Str("R"), NaN}, u \in {Str("U2")}, r \in {Str("R2"), NaN}, ts \in {Str(IsoText[2]), NaN}}

RowsOf(key) ==
    CASE key = "recipe" -> RecipeRows
      [] key = "ingredients" -> IngredientRows
      [] key = "steps" -> StepRows
      [] key = "interactions" -> InteractionRows

\* the primary key of the row at position i: "R" stands for a key that is there
RowIds == <<"K1", "K2", "K3", "K4">>

Keyed(key, row, i) ==
    IF row[id_field(key)] = Str("R") THEN [row EXCEPT ![id_field(key)] = Str(RowIds[i])] ELSE row

\* a call of validate_data on a record set of each kind
InitValidator ==
    /\ pc = "validate"
    /\ error = ""
    /\ result = NoCounts
    /\ file_key \in {"recipe", "ingredients", "steps", "interactions"}
    /\ \E rows \in SeqsUpTo(RowsOf(file_key), MaxRows) :
          df = [i \in 1..Len(rows) |-> Keyed(file_key, rows[i], i)]
    /\ recipes_data = <<>>
    /\ interactions_data = <<>>
    /\ passed = [recipes_data |-> <<>>, interactions_data |-> <<>>]
    /\ IdleValidatorRun
    /\ IdlePipeline
    /\ IdleAnalysis

NextValidator == validate_data

SpecValidator == InitValidator /\ [][NextValidator]_vars

\* a file of zero bytes, which pd.read_csv refuses
ZeroBytes == [t |-> "empty"]

CsvRecipe(serves, difficulty) ==
    [recipe_id |-> "R1", name |-> "Masala Rice", serves |-> serves, prep_time_minutes |-> "15",
     cook_time_minutes |-> "25", difficulty |-> difficulty, created_at |-> IsoText[1]]

CsvIngredient(quantity) ==
    [ingredient_pk_id |-> "K1", recipe_id |-> "R1", name |-> "Salt", quantity |-> quantity, unit |-> "tsp"]

CsvStep(step_number) ==
    [step_pk_id |-> "K1", recipe_id |-> "R1", step_number |-> step_number, description |-> "Heat pan"]

CsvInteraction(i, type, rating) ==
    [interaction_id |-> RowIds[i], user_id |-> "U1", recipe_id |-> "R1", interaction_type |-> type,
     rating |-> rating, timestamp |-> IsoText[1]]

\* the type and the rating text of the rows of an interactions file
CsvInteractionKinds ==
    ({"VIEW", "LIKE", "COOK_ATTEMPT"} \X {"", "4"}) \cup {<<"COOK_ATTEMPT", "6">>, <<"VIEW", "five">>}

RecipeFiles ==
    {NoFile, ZeroBytes, Csv(<<CsvRecipe("2", "Medium")>>), Csv(<<CsvRecipe("four", "Easy")>>),
     Csv(<<CsvRecipe("-1", "Intense"), CsvRecipe("2", "Hard")>>)}

IngredientFiles == {NoFile, Csv(<<CsvIngredient("2")>>), Csv(<<CsvIngredient("a pinch")>>)}

StepFiles == {ZeroBytes, Csv(<<CsvStep("1"), CsvStep("0")>>)}

InteractionFiles ==
    {NoFile, ZeroBytes}
    \cup {Csv([i \in 1..Len(kinds) |-> CsvInteraction(i, kinds[i][1], kinds[i][2])]) :
            kinds \in SeqsUpTo(CsvInteractionKinds, MaxRows)}

\* a run of run_validator over the files of normalized_output, or without the directory
InitValidatorRun ==
    /\ pc = "run_validator"
    /\ error = ""
    /\ result = NoCounts
    /\ file_key = ""
    /\ df = <<>>
    /\ recipes_data = <<>>
    /\ interactions_data = <<>>
    /\ passed = [recipes_data |-> <<>>, interactions_data |-> <<>>]
    /\ idx = 0
    /\ report_content = <<>>
    /\ all_reports = <<>>
    /\ IdlePipeline
    /\ IdleAnalysis
    /\ \E r \in RecipeFiles, g \in IngredientFiles, st \in StepFiles, x \in InteractionFiles :
          \E d \in IF x = NoFile THEN BOOLEAN ELSE {TRUE} :
             disk = [dir |-> d,
                     files |-> [recipe |-> r, ingredients |-> g, steps |-> st, interactions |-> x],
                     report |-> NoFile]

NextValidatorRun ==
    \/ CheckInputDir
    \/ SkipMissingFile
    \/ ValidateFile
    \/ FileError
    \/ WriteReport

SpecValidatorRun == InitValidatorRun /\ [][NextValidatorRun]_vars

\* a stored document: its id and its fields
Stored(id, data) == [id |-> id, data |-> data]

StoredRecipes ==
    {Stored("R1", RecipeDoc(Str("R1"), Timestamp(1), List(GoodIngredients(1)), List(GoodSteps(1)))),
     Stored("R2", RecipeDoc(Str("R2"), Timestamp(2), List(GoodIngredients(0)), List(GoodSteps(1)))),
     Stored("R3", RecipeDoc(Str("R1"), Timestamp(1), None, List(GoodSteps(1)))),
     Stored("R4", RecipeDoc(Absent, Timestamp(1), List(GoodIngredients(1)), List(GoodSteps(1))))}

StoredInteractions ==
    {Stored("I1", InteractionDoc(Str("I1"), Str("R1"), Timestamp(1))),
     Stored("I2", InteractionDoc(Str("I2"), Absent, Timestamp(2)))}

StoredUsers == {Stored("U1", [user_id |-> Str("U1"), username |-> Str("Aarav Sharma")])}

\* a run of run_pipeline over the three collections
InitPipeline ==
    /\ pc = "fetch_recipes"
    /\ error = ""
    /\ result = NoResult
    /\ file_key = ""
    /\ df = <<>>
    /\ recipes_data = <<>>
    /\ interactions_data = <<>>
    /\ passed = [recipes_data |-> <<>>, interactions_data |-> <<>>]
    /\ idx = 0
    /\ report_content = <<>>
    /\ all_reports = <<>>
    /\ disk = [dir |-> FALSE,
               files |-> [recipe |-> NoFile, ingredients |-> NoFile, steps |-> NoFile, interactions |-> NoFile],
               report |-> NoFile]
    /\ users_data = <<>>
    /\ calls = <<>>
    /\ IdleAnalysis
    /\ \E r \in SeqsUpTo(StoredRecipes, MaxRecipes), x \in SeqsUpTo(StoredInteractions, MaxInteractions),
          u \in SeqsUpTo(StoredUsers, 1) :
          db = [recipes |-> r, users |-> u, interactions |-> x]

NextPipeline ==
    \/ FetchRecipes
    \/ FetchUsers
    \/ FetchInteractions
    \/ CheckCoreData
    \/ Transform
    \/ BeginExport
    \/ ExportFile
    \/ EndPipeline

SpecPipeline == InitPipeline /\ [][NextPipeline]_vars

\* the most interaction rows of a file the analytics script reads
MaxEvents == 3

RecipeNames ==
    ("R1" :> "Rice") @@ ("R2" :> "Curry") @@ ("R3" :> "Dal") @@ ("R4" :> "Soup") @@
    ("R5" :> "Salad") @@ ("R6" :> "Cake")

\* a row of recipe.csv
AnalyticsRecipe(recipe_id, prep_time, difficulty) ==
    [recipe_id |-> recipe_id, name |-> RecipeNames[recipe_id], serves |-> "2",
     prep_time_minutes |-> prep_time, cook_time_minutes |-> "25", difficulty |-> difficulty,
     created_at |-> IsoText[1]]

RecipeKinds == {AnalyticsRecipe("R1", "15", "Medium"), AnalyticsRecipe("R2", "20", "Easy")}

\* a row of interactions.csv
AnalyticsInteraction(type, kind) ==
    [interaction_id |-> "I", user_id |-> kind[1], recipe_id |-> kind[2], interaction_type |-> type,
     rating |-> kind[3], timestamp |-> IsoText[1]]

\* the rows of a file, each with its own interaction_id
Numbered(rows) ==
    LET ids == <<"I1", "I2", "I3", "I4", "I5", "I6", "I7", "I8">>
    IN  [i \in 1..Len(rows) |-> [rows[i] EXCEPT !["interaction_id"] = ids[i]]]

\* the user, the recipe and the rating of the rows of one type; R9 is no recipe
EventKinds(type) ==
    CASE type = "VIEW" -> {<<"U1", "R1", "">>, <<"U1", "R2", "">>, <<"U1", "R9", "">>}
      [] type = "LIKE" -> {<<"U1", "R1", "">>, <<"U2", "R1", "">>, <<"U1", "R2", "">>}
      [] type = "COOK_ATTEMPT" -> {<<"U1", "R1", "4">>, <<"U1", "R2", "5">>, <<"U1", "R9", "3">>}

EventLists ==
    {Numbered(rows) :
        rows \in UNION {SeqsUpTo({AnalyticsInteraction(type, k) : k \in EventKinds(type)}, MaxEvents) :
                           type \in {"VIEW", "LIKE", "COOK_ATTEMPT"}}}

AnalyticsIngredient(recipe_id, name) ==
    [ingredient_pk_id |-> "K1", recipe_id |-> recipe_id, name |-> name, quantity |-> "2", unit |-> "cup"]

AnalyticsStep(recipe_id, step_number) ==
    [step_pk_id |-> "K1", recipe_id |-> recipe_id, step_number |-> step_number, description |-> "Heat pan"]

AnalyticsIngredientFiles ==
    {NoFile, Csv(<<>>), Csv(<<AnalyticsIngredient("R1", "Rice")>>),
     Csv(<<AnalyticsIngredient("R1", " Rice"), AnalyticsIngredient("R2", "Rice"), AnalyticsIngredient("R1", "")>>)}

AnalyticsStepFiles ==
    {NoFile, ZeroBytes, Csv(<<>>), Csv(<<AnalyticsStep("R1", "1")>>),
     Csv(<<AnalyticsStep("R1", "1"), AnalyticsStep("R1", "2"), AnalyticsStep("R2", "1")>>)}

\* six recipes, each viewed once and the last one twice
Catalogue ==
    [i \in 1..6 |-> AnalyticsRecipe(<<"R1", "R2", "R3", "R4", "R5", "R6">>[i], "15", "Easy")]

CatalogueViews ==
    Numbered([i \in 1..7 |->
                 AnalyticsInteraction("VIEW", <<"U1", Catalogue[IF i = 7 THEN 6 ELSE i].recipe_id, "">>)])

\* one Ingredient and one Step set
Defaults == [ingredients |-> Csv(<<AnalyticsIngredient("R1", "Rice")>>), steps |-> Csv(<<AnalyticsStep("R1", "1")>>)]

\* the files the analytics script finds: many Recipe and Interaction sets
\* with one Ingredient and one Step set, many Ingredient and Step files with
\* one Recipe and one Interaction set, a Recipe file that cannot be read, and
\* the catalogue
AnalyticsFiles ==
    {[recipe |-> Csv(r), ingredients |-> Defaults.ingredients, steps |-> Defaults.steps, interactions |-> Csv(x)] :
        r \in SeqsUpTo(RecipeKinds, MaxRecipes), x \in EventLists}
    \cup
    {[recipe |-> Csv(<<AnalyticsRecipe("R1", "15", "Medium"), AnalyticsRecipe("R2", "", "")>>),
      ingredients |-> g, steps |-> s,
      interactions |-> Csv(Numbered(<<AnalyticsInteraction("COOK_ATTEMPT", <<"U1", "R1", "4">>),
                                      AnalyticsInteraction("COOK_ATTEMPT", <<"U2", "R2", "">>)>>))] :
        g \in AnalyticsIngredientFiles, s \in AnalyticsStepFiles}
    \cup
    {[recipe |-> r, ingredients |-> Defaults.ingredients, steps |-> Defaults.steps, interactions |-> Csv(<<>>)] :
        r \in {NoFile, ZeroBytes}}
    \cup
    {[recipe |-> Csv(Catalogue), ingredients |-> Defaults.ingredients, steps |-> Defaults.steps,
      interactions |-> Csv(CatalogueViews)]}

\* a run of the analytics script over the files of normalized_output
InitInsights ==
    /\ pc = "load"
    /\ error = ""
    /\ result = NoResult
    /\ file_key = ""
    /\ df = <<>>
    /\ recipes_data = <<>>
    /\ interactions_data = <<>>
    /\ passed = [recipes_data |-> <<>>, interactions_data |-> <<>>]
    /\ idx = 0
    /\ report_content = <<>>
    /\ all_reports = <<>>
    /\ IdlePipeline
    /\ IdleAnalysis
    /\ \E files \in AnalyticsFiles : disk = [dir |-> TRUE, files |-> files, report |-> NoFile]

NextInsights ==
    \/ load_and_merge_data
    \/ generate_insights

SpecInsights == InitInsights /\ [][NextInsights]_vars

\* a call on many recipe lists with one interaction, on many interaction
\* lists with one recipe, or on one recipe of each created_at with one interaction
InitNormalizer ==
    /\ pc = "start"
    /\ error = ""
    /\ result = NoResult
    /\ \/ /\ recipes_data \in SeqsUpTo(RecipeDocs, MaxRecipes)
          /\ interactions_data = <<InteractionDoc(Str("I1"), Str("R1"), Timestamp(1))>>
       \/ /\ recipes_data = <<RecipeDoc(Str("R1"), Timestamp(1), List(GoodIngredients(1)), List(GoodSteps(1)))>>
          /\ interactions_data \in SeqsUpTo(InteractionDocs, MaxInteractions)
       \/ /\ recipes_data \in [1..1 -> DatedRecipeDocs]
          /\ interactions_data = <<InteractionDoc(Str("I1"), Str("R1"), Timestamp(1))>>
    /\ passed = [recipes_data |-> recipes_data, interactions_data |-> interactions_data]
    /\ file_key = ""
    /\ df = <<>>
    /\ IdleValidatorRun
    /\ IdlePipeline
    /\ IdleAnalysis

NextNormalizer == transform_and_normalize

SpecNormalizer == InitNormalizer /\ [][NextNormalizer]_vars

----------------------------------------------------------------------------
(* Properties of the Normalizer *)

\* the values of one column of a record set, in row order
Column(frame, c) == [i \in 1..Len(frame) |-> frame[i][c]]

\* a cell of a row; NaN when the record set has no such column
Cell(row, c) == IF c \in DOMAIN row THEN row[c] ELSE NaN

IsNull(x) == x.t \in {"none", "nan"}

\* a recipe document that exposes a non-empty recipe_id
Retained(recipe_doc) ==
    /\ "recipe_id" \in DOMAIN recipe_doc
    /\ recipe_doc["recipe_id"] \notin {None, Str("")}

\* the number of entries of an embedded list
EmbeddedCount(recipe_doc, key) ==
    IF key \in DOMAIN recipe_doc /\ recipe_doc[key].t = "list" THEN Len(recipe_doc[key].v) ELSE 0

\* the parent's recipe_id, once per embedded entry, over the retained documents in order
RECURSIVE ParentIds(_, _, _)
ParentIds(docs, i, key) ==
    IF i > Len(docs) THEN <<>>
    ELSE (IF Retained(docs[i])
          THEN [k \in 1..EmbeddedCount(docs[i], key) |-> docs[i]["recipe_id"]]
          ELSE <<>>) \o ParentIds(docs, i + 1, key)

\* C1 (as claimed): after transform_and_normalize returns, every recipe
\* document and every interaction document passed in has the field values
\* it had before the call.
C1_InputsNotMutated ==
    pc = "returned" =>
        /\ recipes_data = passed.recipes_data
        /\ interactions_data = passed.interactions_data

\* C2: each retained recipe document with N ingredients and M steps
\* contributes exactly N Ingredient rows and M Step rows, each carrying the
\* parent's recipe_id; so the row counts are the sums of N and of M.
C2_RowsPerEmbeddedEntry ==
    pc = "returned" =>
        /\ Column(result.ingredients_df, "recipe_id") = ParentIds(passed.recipes_data, 1, "ingredients")
        /\ Column(result.steps_df, "recipe_id") = ParentIds(passed.recipes_data, 1, "steps")
        /\ Len(result.ingredients_df) = Len(ParentIds(passed.recipes_data, 1, "ingredients"))
        /\ Len(result.steps_df) = Len(ParentIds(passed.recipes_data, 1, "steps"))

\* two retained documents of different ids, one with two ingredients, the
\* other with one ingredient and one step, have been normalized
C2_Witness ==
    /\ pc = "returned"
    /\ Len(passed.recipes_data) = 2
    /\ Retained(passed.recipes_data[1]) /\ Retained(passed.recipes_data[2])
    /\ passed.recipes_data[1]["recipe_id"] # passed.recipes_data[2]["recipe_id"]
    /\ EmbeddedCount(passed.recipes_data[1], "ingredients") = 2
    /\ EmbeddedCount(passed.recipes_data[2], "ingredients") = 1
    /\ EmbeddedCount(passed.recipes_data[2], "steps") = 1
    /\ Len(result.ingredients_df) = 3

\* C3: a recipe document whose recipe_id is missing or empty is skipped
\* without aborting: the outcome of the call is the outcome on the input
\* with those documents removed, so they add no Recipe, Ingredient or Step
\* row and the other documents are processed as they would be without them.
C3_KeylessRecipeSkipped ==
    pc # "start" =>
        LET kept == RecipeLoop(SelectSeq(passed.recipes_data, Retained), 1, NoRows)
        IN  /\ kept.err # "" => pc = "raised" /\ error = kept.err
            /\ kept.err = "" => error \notin {"TypeError:ingredients", "TypeError:steps",
                                             "AttributeError:ingredients", "AttributeError:steps",
                                             "AttributeError:created_at"}
            /\ pc = "returned" =>
                  /\ result.recipe_df = DataFrame(kept.recipes)
                  /\ result.ingredients_df = DataFrame(kept.ingredients)
                  /\ result.steps_df = DataFrame(kept.steps)
                  /\ Len(result.recipe_df) = Len(SelectSeq(passed.recipes_data, Retained))

\* a call with a keyless document before a retained one has returned the one Recipe row
C3_Witness ==
    /\ pc = "returned"
    /\ Len(passed.recipes_data) = 2
    /\ ~Retained(passed.recipes_data[1])
    /\ Retained(passed.recipes_data[2])
    /\ Len(result.recipe_df) = 1
    /\ result.recipe_df[1]["recipe_id"] = passed.recipes_data[2]["recipe_id"]

\* C4 (as claimed): an interaction document with no interaction_id or no
\* recipe_id does not appear in the Interaction record set returned.
C4_KeylessInteractionDropped ==
    pc = "returned" =>
        \A i \in 1..Len(result.interactions_df) :
            /\ ~IsNull(Cell(result.interactions_df[i], "interaction_id"))
            /\ ~IsNull(Cell(result.interactions_df[i], "recipe_id"))

\* C4 (amended): interaction documents are never dropped: the Interaction
\* record set has one row per interaction document passed in, in input
\* order, with the document's interaction_id and recipe_id, null where the
\* document has none.
C4_EveryInteractionKept ==
    pc = "returned" =>
        /\ Len(result.interactions_df) = Len(passed.interactions_data)
        /\ \A i \in 1..Len(result.interactions_df) :
              /\ Cell(result.interactions_df[i], "interaction_id")
                    = Get(passed.interactions_data[i], "interaction_id", NaN)
              /\ Cell(result.interactions_df[i], "recipe_id")
                    = Get(passed.interactions_data[i], "recipe_id", NaN)

\* a returned Interaction record set holds a row without interaction_id and a row without recipe_id
C4_Witness ==
    /\ pc = "returned"
    /\ Len(passed.interactions_data) = 2
    /\ \E i \in 1..2 : IsNull(Cell(result.interactions_df[i], "interaction_id"))
    /\ \E i \in 1..2 : IsNull(Cell(result.interactions_df[i], "recipe_id"))

\* C5 (as claimed): no shape of a recipe's 'ingredients' / 'steps' value
\* (missing, empty, null, a malformed entry) makes transform_and_normalize raise.
C5_NoErrorForEmbeddedShape ==
    error \notin {"TypeError:ingredients", "TypeError:steps",
                  "AttributeError:ingredients", "AttributeError:steps"}

\* the retained documents of a list, in order
RetainedDocs(docs) == SelectSeq(docs, Retained)

\* C18 (as claimed): the Recipe record set has exactly one row per retained
\* recipe document, and no two Recipe rows share a recipe_id, for every list
\* of recipe documents passed in.
C18_RecipeIdUnique ==
    pc = "returned" =>
        /\ Len(result.recipe_df) = Len(RetainedDocs(passed.recipes_data))
        /\ \A i, j \in 1..Len(result.recipe_df) :
              i # j => result.recipe_df[i]["recipe_id"] # result.recipe_df[j]["recipe_id"]

----------------------------------------------------------------------------
(* Properties of the Validator *)

\* a number below the bound
Below(x, n) == x.t = "int" /\ x.v < n

\* the columns a record set requires to be non-null
RequiredColumns(key) ==
    CASE key = "recipe" -> {"recipe_id", "name", "serves", "prep_time_minutes", "cook_time_minutes", "difficulty"}
      [] key = "ingredients" -> {"ingredient_pk_id", "recipe_id", "name", "quantity"}
      [] key = "steps" -> {"step_pk_id", "recipe_id", "step_number", "description"}
      [] key = "interactions" -> {"interaction_id", "user_id", "recipe_id", "interaction_type", "timestamp"}

\* the rating-consistency rule of an Interaction row
RatingOutOfRange(row) ==
    /\ row["interaction_type"] = Str("COOK_ATTEMPT")
    /\ IsNull(row["rating"]) \/ Below(row["rating"], 1) \/ (row["rating"].t = "int" /\ row["rating"].v > 5)

RatingNotAllowed(row) ==
    /\ row["interaction_type"] # Str("COOK_ATTEMPT")
    /\ ~IsNull(row["rating"])

\* the rule instances a row violates, by the rule table of its record set
Violations(key, row) ==
    {[rule |-> "missing", field |-> f] : f \in {g \in RequiredColumns(key) : IsNull(row[g])}}
    \cup
    (CASE key = "recipe" ->
            {[rule |-> "positive", field |-> f] :
                f \in {g \in {"serves", "prep_time_minutes", "cook_time_minutes"} : Below(row[g], 0)}}
            \cup (IF row["difficulty"] \in {Str("Easy"), Str("Medium"), Str("Hard")} THEN {}
                  ELSE {[rule |-> "difficulty", field |-> "difficulty"]})
       [] key = "ingredients" ->
            IF Below(row["quantity"], 0) THEN {[rule |-> "positive", field |-> "quantity"]} ELSE {}
       [] key = "steps" ->
            IF Below(row["step_number"], 1) THEN {[rule |-> "positive", field |-> "step_number"]} ELSE {}
       [] key = "interactions" ->
            (IF row["interaction_type"] \in {Str("VIEW"), Str("LIKE"), Str("COOK_ATTEMPT")} THEN {}
             ELSE {[rule |-> "interaction_type", field |-> "interaction_type"]})
            \cup (IF RatingOutOfRange(row) THEN {[rule |-> "rating_range", field |-> "rating"]} ELSE {})
            \cup (IF RatingNotAllowed(row) THEN {[rule |-> "rating_not_allowed", field |-> "rating"]} ELSE {}))

\* the rows of the record set that violate at least one rule, in input order
InvalidRows ==
    LET Violating(row) == Violations(file_key, row) # {}
    IN  SelectSeq(df, Violating)

Range(seq) == {seq[i] : i \in 1..Len(seq)}

\* validate_data has returned for the record set it was given
Validated == pc = "returned" /\ file_key # ""

\* C6: for every record set kind and input, valid_count + invalid_count =
\* total_count, total_count is the number of input rows, invalid_count the
\* number of report entries, and 0 <= valid_count <= total_count.
C6_CountsAddUp ==
    Validated =>
        /\ result.valid_records + result.invalid_records = result.total_records
        /\ result.total_records = Len(df)
        /\ result.invalid_records = Len(result.validation_report)
        /\ 0 <= result.valid_records
        /\ result.valid_records <= result.total_records

\* a record set of two rows, one of them invalid, has been counted
C6_Witness ==
    /\ Validated
    /\ result.total_records = 2
    /\ result.invalid_records = 1
    /\ result.valid_records = 1

\* C7: the report has exactly one entry per input record that violates at
\* least one rule and none for the others, in the order of the input; every
\* entry has status INVALID and a non-empty reasons list.
C7_ReportIsTheInvalidRows ==
    Validated =>
        /\ Len(result.validation_report) = Len(InvalidRows)
        /\ \A i \in 1..Len(result.validation_report) :
              /\ result.validation_report[i].id = InvalidRows[i][id_field(file_key)]
              /\ result.validation_report[i].status = "INVALID"
              /\ Len(result.validation_report[i].reasons) > 0

\* two invalid rows with different ids have been reported, or an invalid
\* row after a valid one
C7_Witness ==
    /\ Validated
    /\ Len(df) = 2
    /\ \/ /\ Len(result.validation_report) = 2
          /\ result.validation_report[1].id # result.validation_report[2].id
       \/ /\ Len(result.validation_report) = 1
          /\ Violations(file_key, df[1]) = {}
          /\ result.validation_report[1].id = df[2][id_field(file_key)]

\* C8: no short-circuit: the reasons of a report entry are one reason for
\* every rule instance its record violates, so a record violating k rule
\* instances has exactly k reasons.
C8_AllReasonsCollected ==
    Validated =>
        /\ Len(result.validation_report) = Len(InvalidRows)
        /\ \A i \in 1..Len(result.validation_report) :
              /\ Range(result.validation_report[i].reasons) = Violations(file_key, InvalidRows[i])
              /\ Len(result.validation_report[i].reasons) = Cardinality(Violations(file_key, InvalidRows[i]))

\* a Recipe row with a negative serves and a difficulty outside the enum carries both reasons
C8_Witness ==
    /\ Validated
    /\ file_key = "recipe"
    /\ Len(df) >= 1
    /\ Below(df[1]["serves"], 0)
    /\ df[1]["difficulty"] = Str("Intense")
    /\ Len(result.validation_report) >= 1
    /\ [rule |-> "positive", field |-> "serves"] \in Range(result.validation_report[1].reasons)
    /\ [rule |-> "difficulty", field |-> "difficulty"] \in Range(result.validation_report[1].reasons)

\* C9 (as claimed): validate_data never raises for a record set whose rows
\* hold missing or unparsable values; it returns.
C9_ValidationNeverRaises ==
    file_key # "" => pc # "raised"

\* the ids of the report entries that carry the rating-range reason
RatingRangeIds ==
    {e.id : e \in {x \in Range(result.validation_report) :
                        \E k \in 1..Len(x.reasons) : x.reasons[k].rule = "rating_range"}}

\* C10: an Interaction row of type COOK_ATTEMPT is reported INVALID with
\* the rating-range reason iff its rating is null or outside [1,5]; with a
\* rating in [1,5] and no other violation it is not in the report.
C10_CookAttemptRating ==
    (Validated /\ file_key = "interactions") =>
        \A i \in 1..Len(df) :
            df[i]["interaction_type"] = Str("COOK_ATTEMPT") =>
                /\ df[i]["interaction_id"] \in RatingRangeIds
                      <=> (IsNull(df[i]["rating"])
                           \/ (df[i]["rating"].t = "int" /\ df[i]["rating"].v \notin 1..5))
                /\ (/\ df[i]["rating"].t = "int"
                    /\ df[i]["rating"].v \in 1..5
                    /\ \A f \in RequiredColumns("interactions") : ~IsNull(df[i][f]))
                      => df[i]["interaction_id"] \notin {e.id : e \in Range(result.validation_report)}

\* a COOK_ATTEMPT with rating 6 is reported and one with rating 4 is counted valid
C10_Witness ==
    /\ Validated
    /\ file_key = "interactions"
    /\ Len(df) = 2
    /\ df[1]["interaction_type"] = Str("COOK_ATTEMPT") /\ df[1]["rating"] = Num(6)
    /\ df[2]["interaction_type"] = Str("COOK_ATTEMPT") /\ df[2]["rating"] = Num(4)
    /\ result.invalid_records = 1
    /\ result.valid_records = 1
    /\ result.validation_report[1].id = df[1]["interaction_id"]

----------------------------------------------------------------------------
(* Properties of the Validator run *)

\* run_validator has gone through its loop and returned
RunFinished == pc = "returned" /\ idx = Len(INPUT_FILES) + 1

\* what the file of a key alone makes of its section of the report
SectionKind(key) ==
    IF disk.files[key] = NoFile THEN "skipped"
    ELSE IF LoadAndValidate(key, disk.files[key]).err # "" THEN "error"
    ELSE "summary"

\* C11: an error raised while loading or validating one record set is
\* caught and attributed to that record set only: the report has one
\* section per key of INPUT_FILES, in order, each decided by the file of
\* its own key (an ERROR section for a file that fails, a summary of all
\* its rows for a file that loads and validates), and the report is written.
C11_ErrorStaysWithItsRecordSet ==
    RunFinished =>
        /\ disk.report = [t |-> "written", content |-> report_content]
        /\ Len(report_content) = Len(INPUT_FILES)
        /\ \A i \in 1..Len(INPUT_FILES) :
              /\ report_content[i].key = INPUT_FILES[i]
              /\ report_content[i].kind = SectionKind(INPUT_FILES[i])
              /\ report_content[i].kind = "summary" =>
                    /\ report_content[i].total = Len(disk.files[INPUT_FILES[i]].rows)
                    /\ INPUT_FILES[i] \in DOMAIN all_reports
              /\ report_content[i].kind # "summary" => INPUT_FILES[i] \notin DOMAIN all_reports

\* the recipe file failed in validation, the ingredients file in loading or
\* validation too, and the two record sets after them were summarized in the written report
C11_Witness ==
    /\ RunFinished
    /\ disk.report.t = "written"
    /\ report_content[1].kind = "error" /\ report_content[1].message = "TypeError"
    /\ report_content[2].kind = "error"
    /\ report_content[3].kind = "summary"
    /\ report_content[4].kind = "summary" /\ report_content[4].total = 2

\* C16 (as claimed): through run_validator, an interaction of type VIEW or
\* LIKE whose rating is absent and which violates no other rule is counted
\* valid and is not in the report.
C16_NoRatingViewIsValid ==
    (RunFinished /\ report_content[4].kind = "summary") =>
        \A i \in 1..Len(disk.files["interactions"].rows) :
            LET row == disk.files["interactions"].rows[i]
            IN  (row["interaction_type"] \in {"VIEW", "LIKE"} /\ row["rating"] = "")
                    => Str(row["interaction_id"]) \notin {e.id : e \in Range(report_content[4].lines)}

----------------------------------------------------------------------------
(* Properties of the Pipeline *)

Called(name) == \E i \in 1..Len(calls) : calls[i] = name

NothingWritten == \A key \in DOMAIN disk.files : disk.files[key] = NoFile

CoreInputMissing == Len(db["recipes"]) = 0 \/ Len(db["interactions"]) = 0

ExtractionFirst ==
    /\ Len(calls) >= 3
    /\ SubSeq(calls, 1, 3) = <<"fetch:recipes", "fetch:users", "fetch:interactions">>

\* C13: when the recipes or the interactions collection yields no documents,
\* the run stops after extraction: transform_and_normalize and export_to_csv
\* are never called and no CSV file is written; in every run export_to_csv is
\* called, and a file written, only after the three collections were
\* extracted and transform_and_normalize has returned.
C13_MissingCoreInputIsFatal ==
    /\ CoreInputMissing =>
          /\ ~Called("transform_and_normalize")
          /\ ~Called("export_to_csv")
          /\ NothingWritten
          /\ pc \notin {"transform", "export", "export_loop", "raised"}
    /\ (Called("export_to_csv") \/ ~NothingWritten) =>
          /\ ExtractionFirst
          /\ Len(calls) = 5
          /\ calls[4] = "transform_and_normalize"
          /\ calls[5] = "export_to_csv"
          /\ result # NoResult

\* a run that found recipes and no interaction has returned after extraction
C13_Witness ==
    /\ pc = "returned"
    /\ Len(db["recipes"]) > 0
    /\ Len(db["interactions"]) = 0
    /\ calls = <<"fetch:recipes", "fetch:users", "fetch:interactions">>

----------------------------------------------------------------------------
(* Properties of the Analytics *)

\* generate_insights has returned its list
InsightsReturned == pc = "returned" /\ Len(insights) > 0

\* generate_insights was called and has ended
InsightsEnded == frames.loaded /\ pc \in {"returned", "raised"}

\* C12 (as claimed): with the Step file readable, whatever subset is empty
\* or degenerate (no recipe, no step, no interaction of a type, a series
\* without variance), generate_insights does not raise and returns the 11
\* results.
C12_InsightsNeverRaise ==
    (InsightsEnded /\ Readable(disk.files["steps"])) =>
        /\ pc = "returned"
        /\ Len(insights) = 11
        /\ \A k \in 1..11 : insights[k].ID = k

\* the position of the first VIEW of a recipe of that name, 0 when none
FirstView(name) ==
    LET x == frames.interactions_df
        views == {i \in Rows(x) :
                    /\ x[i]["interaction_type"] = Str("VIEW")
                    /\ \E j \in Rows(frames.recipes_df) :
                          /\ frames.recipes_df[j]["recipe_id"] = x[i]["recipe_id"]
                          /\ frames.recipes_df[j]["name"] = name}
    IN  IF views = {} THEN 0 ELSE CHOOSE i \in views : \A j \in views : i <= j

\* C14 (as claimed): insight 5 holds at most 5 recipes in descending order
\* of their VIEW counts, recipes of equal count in the order of their first
\* VIEW; for [VIEW R1, VIEW R1, VIEW R2] with R1 = Rice and R2 = Curry it is
\* {Rice: 2, Curry: 1}.
C14_TopViewedRanking ==
    InsightsReturned =>
        LET top == insights[5].Result
        IN  /\ Len(top) <= 5
            /\ \A a, b \in 1..Len(top) : a < b =>
                  \/ top[a].value > top[b].value
                  \/ top[a].value = top[b].value /\ FirstView(top[a].key) < FirstView(top[b].key)
            /\ ( /\ [i \in Rows(frames.recipes_df) |-> frames.recipes_df[i]["recipe_id"]] = <<Str("R1"), Str("R2")>>
                 /\ [i \in Rows(frames.interactions_df) |-> frames.interactions_df[i]["recipe_id"]]
                       = <<Str("R1"), Str("R1"), Str("R2")>>
                 /\ \A i \in Rows(frames.interactions_df) :
                       frames.interactions_df[i]["interaction_type"] = Str("VIEW") )
               => top = <<Item(Str("Rice"), 2), Item(Str("Curry"), 1)>>

\* the users with a LIKE on the recipe of a Recipe row
Likers(i) ==
    {frames.interactions_df[k]["user_id"] :
        k \in {n \in Rows(frames.interactions_df) :
                 /\ frames.interactions_df[n]["interaction_type"] = Str("LIKE")
                 /\ frames.interactions_df[n]["recipe_id"] = frames.recipes_df[i]["recipe_id"]}}

\* C15: insight 11 is the name of one recipe with the largest number of
\* distinct users among its LIKE interactions, with that number; it is empty
\* when no recipe has a LIKE.
C15_MostLikedByDistinctUsers ==
    InsightsReturned =>
        LET most == insights[11].Result
            liked == {i \in Rows(frames.recipes_df) : Likers(i) # {}}
        IN  IF liked = {} THEN most = <<>>
            ELSE /\ Len(most) = 1
                 /\ \E i \in liked :
                       /\ most[1].key = frames.recipes_df[i]["name"]
                       /\ most[1].value = Cardinality(Likers(i))
                       /\ \A j \in liked : Cardinality(Likers(j)) <= Cardinality(Likers(i))

\* the same user has liked the most liked recipe more than once, and another
\* recipe once
C15_Witness ==
    /\ InsightsReturned
    /\ Len(insights[11].Result) = 1
    /\ \E a, b, c \in Rows(frames.interactions_df) :
          /\ a < b
          /\ frames.interactions_df[a]["interaction_type"] = Str("LIKE")
          /\ frames.interactions_df[b]["interaction_type"] = Str("LIKE")
          /\ frames.interactions_df[b]["user_id"] = frames.interactions_df[a]["user_id"]
          /\ frames.interactions_df[b]["recipe_id"] = frames.interactions_df[a]["recipe_id"]
          /\ frames.interactions_df[c]["interaction_type"] = Str("LIKE")
          /\ frames.interactions_df[c]["user_id"] = frames.interactions_df[a]["user_id"]
          /\ frames.interactions_df[c]["recipe_id"] # frames.interactions_df[a]["recipe_id"]
          /\ \E i, j \in Rows(frames.recipes_df) :
                /\ frames.recipes_df[i]["recipe_id"] = frames.interactions_df[a]["recipe_id"]
                /\ frames.recipes_df[j]["recipe_id"] = frames.interactions_df[c]["recipe_id"]

\* C17 (as claimed): insight 10 counts as attempted only recipes of the
\* Recipe set, so attempted <= total and the percentage is within [0, 100].
C17_AttemptedWithinTotal ==
    InsightsReturned =>
        LET share == insights[10].Result
        IN  /\ share.attempted <= share.total
            /\ share.percentage.hundredths >= 0
            /\ share.percentage.hundredths <= 10000

====
